---- MODULE Spec2Model ----
(***************************************************************************)
(* Model of app/document_loader.py: clean_text, detect_structure,          *)
(* semantic_chunking and the grouping / reference-extraction loops of      *)
(* parse_document_in_memory.                                               *)
(*                                                                         *)
(* A text is a sequence of one-character strings.  Regular expressions of  *)
(* the source are written as syntax trees and run by a backtracking        *)
(* matcher with Python's priorities (leftmost start, greedy or lazy        *)
(* repetition, first alternative first).  A Python list that the code      *)
(* shares between several owners (the context lists) lives in `heap` and   *)
(* is referred to by its index there.                                      *)
(***************************************************************************)
EXTENDS Integers, Sequences, FiniteSets, TLC

\* ------------------------------------------------------------------------
\* Characters and character classes
\* ------------------------------------------------------------------------

UpperSeq ==
    <<"A","B","C","D","E","F","G","H","I","J","K","L","M",
      "N","O","P","Q","R","S","T","U","V","W","X","Y","Z">>

LowerSeq ==
    <<"a","b","c","d","e","f","g","h","i","j","k","l","m",
      "n","o","p","q","r","s","t","u","v","w","x","y","z">>

Upper == {UpperSeq[i] : i \in 1..26}

Lower == {LowerSeq[i] : i \in 1..26}

Letter == Upper \cup Lower

Digit == {"0","1","2","3","4","5","6","7","8","9"}

\* \w
WordChar == Letter \cup Digit \cup {"_"}

\* \s
Space == {" ", "\n", "\t"}

\* The characters a literal character matches under re.IGNORECASE.
CaseSet(c) ==
    IF \E i \in 1..26 : c = UpperSeq[i] \/ c = LowerSeq[i]
    THEN LET i == CHOOSE j \in 1..26 : c = UpperSeq[j] \/ c = LowerSeq[j]
         IN  {UpperSeq[i], LowerSeq[i]}
    ELSE {c}

\* str.lower() of a text.
LowerText(s) ==
    [i \in 1..Len(s) |->
        IF \E j \in 1..26 : s[i] = UpperSeq[j]
        THEN LowerSeq[CHOOSE j \in 1..26 : s[i] = UpperSeq[j]]
        ELSE s[i]]

\* ------------------------------------------------------------------------
\* Regular expression syntax trees
\* ------------------------------------------------------------------------

\* [cs]: one character of the set cs.
In(cs) == [t |-> "in", cs |-> cs]

\* [^cs]: one character outside cs.
NotIn(cs) == [t |-> "notin", cs |-> cs]

\* . (any character but a newline)
Dot == NotIn({"\n"})

\* \b
WordBoundary == [t |-> "wb"]

\* r1 r2 ... rn
Cat(rs) == [t |-> "seq", rs |-> rs]

\* r1 | r2 | ... | rn
Alt(rs) == [t |-> "alt", rs |-> rs]

\* c{min,} greedy, c a character class (every repetition of the source
\* repeats a single character class)
Rep(c, min) == [t |-> "rep", r |-> c, min |-> min, lazy |-> FALSE]

\* c{min,}? lazy
LazyRep(c, min) == [t |-> "rep", r |-> c, min |-> min, lazy |-> TRUE]

\* A literal text, case-sensitive.
Lit(s) == Cat([i \in 1..Len(s) |-> In({s[i]})])

\* A literal text under re.IGNORECASE.
LitI(s) == Cat([i \in 1..Len(s) |-> In(CaseSet(s[i]))])

\* ------------------------------------------------------------------------
\* The matcher
\* ------------------------------------------------------------------------

IsWord(s, i) == i >= 1 /\ i <= Len(s) /\ s[i] \in WordChar

\* \b holds between position i-1 and i.
AtWordBoundary(s, i) == IsWord(s, i - 1) # IsWord(s, i)

\* Whether the character class c accepts the character ch.
Accepts(c, ch) == IF c.t = "in" THEN ch \in c.cs ELSE ch \notin c.cs

\* The position after the longest run of characters of class c from i on.
RunEnd(c, s, i) ==
    CHOOSE j \in i..(Len(s) + 1) :
        /\ \A k \in i..(j - 1) : Accepts(c, s[k])
        /\ (j = Len(s) + 1 \/ ~Accepts(c, s[j]))

RECURSIVE Ends(_, _, _)
RECURSIVE EndsFrom(_, _, _, _, _)
RECURSIVE EndsSeq(_, _, _, _)
RECURSIVE EndsAlt(_, _, _, _)

\* c{min,}: every run length from the longest down to min (greedy) or from
\* min up to the longest (lazy).
EndsRep(r, s, i) ==
    LET e == RunEnd(r.r, s, i)
        n == IF e - i >= r.min THEN e - i - r.min + 1 ELSE 0
    IN  IF r.lazy THEN [k \in 1..n |-> i + r.min + k - 1]
                  ELSE [k \in 1..n |-> e - k + 1]

\* The positions at which a match of r starting at position i of s can end
\* (the index of the character after the match), in the order in which a
\* backtracking matcher tries them.
Ends(r, s, i) ==
    CASE r.t = "in"    -> IF i <= Len(s) /\ s[i] \in r.cs THEN <<i + 1>> ELSE <<>>
      [] r.t = "notin" -> IF i <= Len(s) /\ s[i] \notin r.cs THEN <<i + 1>> ELSE <<>>
      [] r.t = "wb"    -> IF AtWordBoundary(s, i) THEN <<i>> ELSE <<>>
      [] r.t = "seq"   -> EndsSeq(r.rs, 1, s, <<i>>)
      [] r.t = "alt"   -> EndsAlt(r.rs, 1, s, i)
      [] r.t = "rep"   -> EndsRep(r, s, i)

\* Ends of r from each of the start positions ps[lo..hi], concatenated in
\* order.
EndsFrom(r, s, ps, lo, hi) ==
    IF lo > hi THEN <<>>
    ELSE IF lo = hi THEN Ends(r, s, ps[lo])
    ELSE LET mid == (lo + hi) \div 2
         IN  EndsFrom(r, s, ps, lo, mid) \o EndsFrom(r, s, ps, mid + 1, hi)

EndsSeq(rs, k, s, ps) ==
    IF k > Len(rs) \/ ps = <<>> THEN ps
    ELSE EndsSeq(rs, k + 1, s, EndsFrom(rs[k], s, ps, 1, Len(ps)))

EndsAlt(rs, k, s, i) ==
    IF k > Len(rs) THEN <<>>
    ELSE Ends(rs[k], s, i) \o EndsAlt(rs, k + 1, s, i)

NoMatch == <<>>

\* re.match(r, s): <<start, end>> of the match at the start of s, or NoMatch.
ReMatch(r, s) ==
    LET es == Ends(r, s, 1)
    IN  IF es = <<>> THEN NoMatch ELSE <<1, es[1]>>

RECURSIVE FirstStart(_, _, _, _)
\* The first position in lo..hi from which r matches, or 0.
FirstStart(r, s, lo, hi) ==
    IF lo > hi THEN 0
    ELSE IF lo = hi THEN (IF Ends(r, s, lo) # <<>> THEN lo ELSE 0)
    ELSE LET mid  == (lo + hi) \div 2
             left == FirstStart(r, s, lo, mid)
         IN  IF left # 0 THEN left ELSE FirstStart(r, s, mid + 1, hi)

\* The leftmost match of r in s starting at position >= i.
ReSearchFrom(r, s, i) ==
    LET st == FirstStart(r, s, i, Len(s) + 1)
    IN  IF st = 0 THEN NoMatch ELSE <<st, Ends(r, s, st)[1]>>

\* re.search(r, s)
ReSearch(r, s) == ReSearchFrom(r, s, 1)

\* match.group(0)
Group0(s, m) == SubSeq(s, m[1], m[2] - 1)

\* The position after a match, from which the next one is looked for (an
\* empty match steps over one character).
NextFrom(m) == IF m[2] > m[1] THEN m[2] ELSE m[2] + 1

RECURSIVE FindAllFrom(_, _, _)
FindAllFrom(r, s, i) ==
    LET m == ReSearchFrom(r, s, i)
    IN  IF m = NoMatch THEN <<>>
        ELSE <<Group0(s, m)>> \o FindAllFrom(r, s, NextFrom(m))

\* re.findall(r, s) for a pattern without groups.
ReFindAll(r, s) == FindAllFrom(r, s, 1)

RECURSIVE SubFrom(_, _, _, _)
SubFrom(r, rep, s, i) ==
    LET m == ReSearchFrom(r, s, i)
    IN  IF m = NoMatch THEN SubSeq(s, i, Len(s))
        ELSE SubSeq(s, i, m[1] - 1) \o rep \o
             (IF m[2] > m[1] THEN SubFrom(r, rep, s, m[2])
              ELSE IF m[2] > Len(s) THEN <<>>
              ELSE <<s[m[2]]>> \o SubFrom(r, rep, s, m[2] + 1))

\* re.sub(r, rep, s) for a replacement text without group references.
ReSub(r, rep, s) == SubFrom(r, rep, s, 1)

\* str.strip()
Strip(s) ==
    IF \A i \in 1..Len(s) : s[i] \in Space THEN <<>>
    ELSE SubSeq(s,
                CHOOSE i \in 1..Len(s) :
                    s[i] \notin Space /\ \A k \in 1..(i - 1) : s[k] \in Space,
                CHOOSE j \in 1..Len(s) :
                    s[j] \notin Space /\ \A k \in (j + 1)..Len(s) : s[k] \in Space)

\* ------------------------------------------------------------------------
\* clean_text
\* ------------------------------------------------------------------------

\* (?:Page \d+ of \d+|UIN: [A-Z0-9]+|\b[A-Z][a-zA-Z\s]*Co\.\s*Ltd\.|Confidential\s*?\n)
\* with re.IGNORECASE
HeaderFooterRe ==
    Alt(<<Cat(<<LitI(<<"P","a","g","e"," ">>), Rep(In(Digit), 1), LitI(<<" ","o","f"," ">>), Rep(In(Digit), 1)>>),
          Cat(<<LitI(<<"U","I","N",":"," ">>), Rep(In(Letter \cup Digit), 1)>>),
          Cat(<<WordBoundary, In(Letter), Rep(In(Letter \cup Space), 0),
                LitI(<<"C","o">>), In({"."}), Rep(In(Space), 0), LitI(<<"L","t","d">>), In({"."})>>),
          Cat(<<LitI(<<"C","o","n","f","i","d","e","n","t","i","a","l">>), LazyRep(In(Space), 0), In({"\n"})>>)>>)

\* \s+
WhitespaceRe == Rep(In(Space), 1)

\* \w+
WordRe == Rep(In(WordChar), 1)

\* (\w+)-\s*(\w+)
BrokenWordRe == Cat(<<WordRe, In({"-"}), Rep(In(Space), 0), WordRe>>)

\* Where group 1 of a BrokenWordRe match starting at st ends: \w+ is greedy
\* and must be followed by the hyphen, which is no word character.
Group1End(s, st) == Ends(WordRe, s, st)[1]

\* Where group 2 starts: after the hyphen and the whitespace behind it.
Group2Start(s, st) == Ends(Rep(In(Space), 0), s, Group1End(s, st) + 1)[1]

RECURSIVE FixBrokenFrom(_, _)
FixBrokenFrom(s, i) ==
    LET m == ReSearchFrom(BrokenWordRe, s, i)
    IN  IF m = NoMatch THEN SubSeq(s, i, Len(s))
        ELSE SubSeq(s, i, m[1] - 1)
             \o SubSeq(s, m[1], Group1End(s, m[1]) - 1)
             \o SubSeq(s, Group2Start(s, m[1]), m[2] - 1)
             \o FixBrokenFrom(s, m[2])

\* re.sub(r'(\w+)-\s*(\w+)', r'\1\2', s)
FixBrokenWords(s) == FixBrokenFrom(s, 1)

\* (?:--+\s*Sent from.*|On .* wrote:.*|Best regards,.*|Sincerely,.*)
\* with re.IGNORECASE
EmailRe ==
    Alt(<<Cat(<<In({"-"}), Rep(In({"-"}), 1), Rep(In(Space), 0),
                LitI(<<"S","e","n","t"," ","f","r","o","m">>), Rep(Dot, 0)>>),
          Cat(<<LitI(<<"O","n"," ">>), Rep(Dot, 0), LitI(<<" ","w","r","o","t","e",":">>), Rep(Dot, 0)>>),
          Cat(<<LitI(<<"B","e","s","t"," ","r","e","g","a","r","d","s",",">>), Rep(Dot, 0)>>),
          Cat(<<LitI(<<"S","i","n","c","e","r","e","l","y",",">>), Rep(Dot, 0)>>)>>)

\* (\[.*?\]|\{.*?\})
DocxRe ==
    Alt(<<Cat(<<In({"["}), LazyRep(Dot, 0), In({"]"})>>),
          Cat(<<In({"{"}), LazyRep(Dot, 0), In({"}"})>>)>>)

\* (?:This document is.*|All rights reserved|Version \d+\.\d+)
\* with re.IGNORECASE
BoilerplateRe ==
    Alt(<<Cat(<<LitI(<<"T","h","i","s"," ","d","o","c","u","m","e","n","t"," ","i","s">>), Rep(Dot, 0)>>),
          LitI(<<"A","l","l"," ","r","i","g","h","t","s"," ","r","e","s","e","r","v","e","d">>),
          Cat(<<LitI(<<"V","e","r","s","i","o","n"," ">>), Rep(In(Digit), 1), In({"."}), Rep(In(Digit), 1)>>)>>)

EXT_EML == <<".","e","m","l">>

EXT_DOCX == <<".","d","o","c","x">>

EXT_PDF == <<".","p","d","f">>

clean_text(text, doc_ext) ==
    LET t1 == ReSub(HeaderFooterRe, <<>>, text)
        t2 == ReSub(WhitespaceRe, <<" ">>, t1)
        t3 == FixBrokenWords(t2)
        t4 == IF doc_ext = EXT_EML THEN ReSub(EmailRe, <<>>, t3) ELSE t3
        t5 == IF doc_ext = EXT_DOCX THEN ReSub(DocxRe, <<>>, t4) ELSE t4
        t6 == ReSub(BoilerplateRe, <<>>, t5)
    IN  Strip(t6)


\* ------------------------------------------------------------------------
\* Sample texts
\* ------------------------------------------------------------------------

\* "   "
T_BLANK ==
    <<" "," "," ">>

\* "SECTION 1: DEFINITIONS"
T_SECTION ==
    <<"S","E","C","T","I","O","N"," ","1",":"," ","D","E","F","I","N","I","T","I","O","N","S">>

\* "1. Hospital means an institution..."
T_HOSPITAL ==
    <<"1","."," ","H","o","s","p","i","t","a","l"," ","m","e","a","n","s"," ","a","n"," ","i","n","s","t","i","t","u","t","i","o","n",".",".",".">>

\* "2. Ambulance means..."
T_AMBULANCE ==
    <<"2","."," ","A","m","b","u","l","a","n","c","e"," ","m","e","a","n","s",".",".",".">>

\* "a) Maternity is excluded."
T_MATERNITY ==
    <<"a",")"," ","M","a","t","e","r","n","i","t","y"," ","i","s"," ","e","x","c","l","u","d","e","d",".">>

\* "Exclusions: not covered."
T_EXCLUSIONS ==
    <<"E","x","c","l","u","s","i","o","n","s",":"," ","n","o","t"," ","c","o","v","e","r","e","d",".">>

\* "Items: not covered."
T_ITEMS ==
    <<"I","t","e","m","s",":"," ","n","o","t"," ","c","o","v","e","r","e","d",".">>

\* "Cover: subject to limits."
T_COVER ==
    <<"C","o","v","e","r",":"," ","s","u","b","j","e","c","t"," ","t","o"," ","l","i","m","i","t","s",".">>

\* " Room: 1% "
T_ROOM ==
    <<" ","R","o","o","m",":"," ","1","%"," ">>

\* "Annexure-A"
T_ANNEX ==
    <<"A","n","n","e","x","u","r","e","-","A">>

\* "See Section 4.2 for details"
T_SEE ==
    <<"S","e","e"," ","S","e","c","t","i","o","n"," ","4",".","2"," ","f","o","r"," ","d","e","t","a","i","l","s">>

\* "Paid in full."
T_PLAIN ==
    <<"P","a","i","d"," ","i","n"," ","f","u","l","l",".">>

\* ------------------------------------------------------------------------
\* detect_structure: patterns
\* ------------------------------------------------------------------------

\* r? (greedy: with r first, then without)
Opt(r) == Alt(<<r, Cat(<<>>)>>)

\* \d+
DigitsRe == Rep(In(Digit), 1)

\* \s*
SpacesRe == Rep(In(Space), 0)

\* ^(?:\d+\.\s*[A-Z\s]+|\d+\.\d+\.\s*[A-Z\s]+|[A-Z\s]{10,}|[0-9]+\.\s*[A-Za-z].+)
\* with re.IGNORECASE, so [A-Z] is any letter
HeadingRe ==
    Alt(<<Cat(<<DigitsRe, In({"."}), SpacesRe, Rep(In(Letter \cup Space), 1)>>),
          Cat(<<DigitsRe, In({"."}), DigitsRe, In({"."}), SpacesRe,
                Rep(In(Letter \cup Space), 1)>>),
          Rep(In(Letter \cup Space), 10),
          Cat(<<DigitsRe, In({"."}), SpacesRe, In(Letter), Rep(Dot, 1)>>)>>)

\* ^(?:[a-z]\)|\d+\.|Code\s*-\s*[A-Za-z0-9]+|[ivx]+\.) with re.IGNORECASE
ClauseRe ==
    Alt(<<Cat(<<In(Letter), In({")"})>>),
          Cat(<<DigitsRe, In({"."})>>),
          Cat(<<LitI(<<"C","o","d","e">>), SpacesRe, In({"-"}), SpacesRe,
                Rep(In(Letter \cup Digit), 1)>>),
          Cat(<<Rep(In({"i", "v", "x", "I", "V", "X"}), 1), In({"."})>>)>>)

\* (?:not covered|exclusions?|conditions\s*apply|subject to|except\s*for|unless\s*otherwise\s*stated)
\* with re.IGNORECASE
ContextRe ==
    Alt(<<LitI(<<"n","o","t"," ","c","o","v","e","r","e","d">>),
          Cat(<<LitI(<<"e","x","c","l","u","s","i","o","n">>), Opt(LitI(<<"s">>))>>),
          Cat(<<LitI(<<"c","o","n","d","i","t","i","o","n","s">>), SpacesRe, LitI(<<"a","p","p","l","y">>)>>),
          LitI(<<"s","u","b","j","e","c","t"," ","t","o">>),
          Cat(<<LitI(<<"e","x","c","e","p","t">>), SpacesRe, LitI(<<"f","o","r">>)>>),
          Cat(<<LitI(<<"u","n","l","e","s","s">>), SpacesRe, LitI(<<"o","t","h","e","r","w","i","s","e">>), SpacesRe, LitI(<<"s","t","a","t","e","d">>)>>)>>)

\* Whether pat occurs in s (Python's `pat in s`).
Contains(s, pat) ==
    \E i \in 1..(Len(s) - Len(pat) + 1) : SubSeq(s, i, i + Len(pat) - 1) = pat

\* Python's None, where a text is expected: no text holds this element.
None == <<"<None>">>

\* Python's truth value of an optional text.
Truthy(x) == x # None /\ x # <<>>

\* element.metadata.page_number is None
NoPage == 0

\* ------------------------------------------------------------------------
\* Input elements
\* ------------------------------------------------------------------------

Element(text, category, page_number) ==
    [text |-> text, category |-> category, page_number |-> page_number]

\* The elements a document is drawn from.
Elements ==
    { Element(T_BLANK, "Other", 3),
      Element(T_SECTION, "Title", NoPage),
      Element(T_HOSPITAL, "Other", NoPage),
      Element(T_AMBULANCE, "Other", NoPage),
      Element(T_MATERNITY, "Other", 2),
      Element(T_EXCLUSIONS, "Other", NoPage),
      Element(T_ITEMS, "Other", NoPage),
      Element(T_COVER, "ListItem", NoPage),
      Element(T_ROOM, "Table", NoPage),
      Element(T_ANNEX, "Other", NoPage),
      Element(T_SEE, "Other", NoPage),
      Element(T_PLAIN, "Other", 2) }

\* The longest document (number of elements).
MaxElems == 2

\* ------------------------------------------------------------------------
\* State
\* ------------------------------------------------------------------------

VARIABLES
    pc,                   \* where the program is
    heap,                 \* the list objects: heap[id] is the content of list id
    elements,             \* the elements detect_structure has consumed so far
    structured_elements,  \* detect_structure: the records emitted so far
    current_section,
    current_clause,
    current_page,
    last_heading,
    context_stack,        \* the id of the list context_stack names
    final_chunks,         \* parse_document_in_memory
    current_section_text,
    current_heading,
    current_metadata,
    idx,                  \* the position of the running for loop
    call,                 \* the frame of a running semantic_chunking call
    text,                 \* clean_text: the text being cleaned
    doc_ext,
    passes                \* how often clean_text has been applied to text

detectVars ==
    <<elements, structured_elements, current_section, current_clause,
      current_page, last_heading, context_stack>>

parseVars == <<final_chunks, current_section_text, current_heading, current_metadata, idx>>

cleanVars == <<text, doc_ext, passes>>

vars == <<pc, heap, detectVars, parseVars, call, cleanVars>>

\* No semantic_chunking call is running.
NoCall == [active |-> FALSE]

\* The metadata of a record before any record was seen (Python's None).
NoMetadata == [section |-> None, clause |-> None, page |-> 0, context |-> 0]

\* ------------------------------------------------------------------------
\* detect_structure
\* ------------------------------------------------------------------------

\* The dictionary detect_structure appends for an element.  context is the
\* id of a list: the dictionary holds the list itself, not a copy of it.
Record(t, heading, section, clause, page, context) ==
    [text |-> t,
     heading |-> heading,
     metadata |-> [section |-> section, clause |-> clause, page |-> page,
                   context |-> context]]

\* element.text.strip()
TextOf(e) == Strip(e.text)

\* current_page after "if ... element.metadata.page_number: current_page = ..."
PageAfter(e) == IF e.page_number # NoPage THEN e.page_number ELSE current_page

\* heading_match or element.category == 'Title'
IsHeading(e) == e.category = "Title" \/ ReMatch(HeadingRe, TextOf(e)) # NoMatch

\* clause_match.group(0), or None without a match
ClauseOf(t) ==
    LET m == ReMatch(ClauseRe, t)
    IN  IF m = NoMatch THEN None ELSE Group0(t, m)

\* context_match.group(0), or None without a match
QualifierOf(t) ==
    LET m == ReSearch(ContextRe, t)
    IN  IF m = NoMatch THEN None ELSE Group0(t, m)

IsClause(e) == ClauseOf(TextOf(e)) # None

\* The list objects after "if context_match: context_stack.append(...)".
HeapAfterQualifier(e) ==
    LET q == QualifierOf(TextOf(e))
    IN  IF q = None THEN heap
        ELSE [heap EXCEPT ![context_stack] = Append(@, q)]

\* 'annexure' in text.lower() or 'schedule' in text.lower()
IsAnnexure(e) ==
    \/ Contains(LowerText(TextOf(e)), <<"a","n","n","e","x","u","r","e">>)
    \/ Contains(LowerText(TextOf(e)), <<"s","c","h","e","d","u","l","e">>)

\* The loop takes the next element.
Takes(e) ==
    /\ pc = "detect"
    /\ Len(elements) < MaxElems
    /\ elements' = Append(elements, e)

\* SkipEmpty with the page number taken before the text is looked at.
SkipEmptyAfterPage(e) ==
    /\ Takes(e)
    /\ TextOf(e) = <<>>
    /\ current_page' = PageAfter(e)
    /\ UNCHANGED <<pc, heap, structured_elements, current_section, current_clause,
                   last_heading, context_stack, parseVars, call, cleanVars>>

\* if not text: continue
SkipEmpty(e) ==
    /\ Takes(e)
    /\ TextOf(e) = <<>>
    /\ UNCHANGED <<pc, heap, structured_elements, current_section, current_clause,
                   current_page, last_heading, context_stack, parseVars, call,
                   cleanVars>>

\* EmitHeading with the record carrying context_stack itself, as the other
\* records do, instead of a list of its own.
EmitHeadingSharedContext(e) ==
    /\ Takes(e)
    /\ TextOf(e) # <<>>
    /\ IsHeading(e)
    /\ current_page' = PageAfter(e)
    /\ current_section' = TextOf(e)
    /\ last_heading' = TextOf(e)
    /\ heap' = Append(heap, <<>>)
    /\ context_stack' = Len(heap) + 1
    /\ structured_elements' =
           Append(structured_elements,
                  Record(TextOf(e), TextOf(e), TextOf(e), None, PageAfter(e),
                         Len(heap) + 1))
    /\ UNCHANGED <<pc, current_clause, parseVars, call, cleanVars>>

\* A heading: a new section starts, with a new empty context_stack; the
\* record gets its own new empty list as context.
EmitHeading(e) ==
    /\ Takes(e)
    /\ TextOf(e) # <<>>
    /\ IsHeading(e)
    /\ current_page' = PageAfter(e)
    /\ current_section' = TextOf(e)
    /\ last_heading' = TextOf(e)
    /\ heap' = heap \o << <<>>, <<>> >>
    /\ context_stack' = Len(heap) + 1
    /\ structured_elements' =
           Append(structured_elements,
                  Record(TextOf(e), TextOf(e), TextOf(e), None, PageAfter(e),
                         Len(heap) + 2))
    /\ UNCHANGED <<pc, current_clause, parseVars, call, cleanVars>>

\* A clause marker: the record carries context_stack itself.
EmitClause(e) ==
    /\ Takes(e)
    /\ TextOf(e) # <<>>
    /\ ~IsHeading(e)
    /\ IsClause(e)
    /\ current_page' = PageAfter(e)
    /\ current_clause' = ClauseOf(TextOf(e))
    /\ structured_elements' =
           Append(structured_elements,
                  Record(TextOf(e), last_heading, current_section, current_clause',
                         PageAfter(e), context_stack))
    /\ UNCHANGED <<pc, heap, current_section, last_heading, context_stack,
                   parseVars, call, cleanVars>>

\* The element is neither a heading nor a clause: the qualifier of its text,
\* if any, is appended to context_stack, and one record is appended.
EmitOther(e, heading, section, clause) ==
    /\ Takes(e)
    /\ TextOf(e) # <<>>
    /\ ~IsHeading(e)
    /\ ~IsClause(e)
    /\ current_page' = PageAfter(e)
    /\ heap' = HeapAfterQualifier(e)
    /\ structured_elements' =
           Append(structured_elements,
                  Record(TextOf(e), heading, section, clause, PageAfter(e),
                         context_stack))
    /\ UNCHANGED <<pc, current_section, current_clause, last_heading, context_stack,
                   parseVars, call, cleanVars>>

EmitListItem(e) ==
    /\ e.category = "ListItem"
    /\ EmitOther(e, last_heading, current_section, current_clause)

EmitTable(e) ==
    /\ e.category = "Table"
    /\ EmitOther(e, last_heading, current_section, current_clause)

EmitAnnexure(e) ==
    /\ e.category \notin {"ListItem", "Table"}
    /\ IsAnnexure(e)
    /\ EmitOther(e,
                 IF Truthy(last_heading) THEN last_heading ELSE TextOf(e),
                 IF Truthy(current_section) THEN current_section ELSE TextOf(e),
                 None)

EmitRegular(e) ==
    /\ e.category \notin {"ListItem", "Table"}
    /\ ~IsAnnexure(e)
    /\ EmitOther(e, last_heading, current_section, current_clause)

\* return structured_elements
ReturnStructure ==
    /\ pc = "detect"
    /\ pc' = "group"
    /\ UNCHANGED <<heap, detectVars, parseVars, call, cleanVars>>

DetectStep ==
    \E e \in Elements :
        \/ SkipEmpty(e)
        \/ EmitHeading(e)
        \/ EmitClause(e)
        \/ EmitListItem(e)
        \/ EmitTable(e)
        \/ EmitAnnexure(e)
        \/ EmitRegular(e)

InitDetect ==
    /\ pc = "detect"
    /\ heap = << <<>> >>
    /\ elements = <<>>
    /\ structured_elements = <<>>
    /\ current_section = None
    /\ current_clause = None
    /\ current_page = 1
    /\ last_heading = None
    /\ context_stack = 1
    /\ final_chunks = <<>>
    /\ current_section_text = <<>>
    /\ current_heading = None
    /\ current_metadata = NoMetadata
    /\ idx = 1
    /\ call = NoCall
    /\ text = <<>>
    /\ doc_ext = <<>>
    /\ passes = 0

NextDetect == DetectStep \/ ReturnStructure

SpecDetect == InitDetect /\ [][NextDetect]_vars

\* ------------------------------------------------------------------------
\* semantic_chunking
\* ------------------------------------------------------------------------

\* WordPunctTokenizer: \w+|[^\w\s]+
WordPunctRe ==
    Alt(<<Rep(In(WordChar), 1), Rep(NotIn(WordChar \cup Space), 1)>>)

\* len(tokenizer.tokenize(s))
Tokens(s) == Len(ReFindAll(WordPunctRe, s))

RECURSIVE SumTokens(_)
\* sum(len(tokenizer.tokenize(s)) for s in list)
SumTokens(list) ==
    IF list = <<>> THEN 0 ELSE Tokens(Head(list)) + SumTokens(Tail(list))

RECURSIVE Join(_, _)
\* sep.join(list)
Join(list, sep) ==
    IF list = <<>> THEN <<>>
    ELSE IF Len(list) = 1 THEN list[1]
    ELSE list[1] \o sep \o Join(Tail(list), sep)

\* The characters that end a sentence.
Terminator == {".", "!", "?"}

\* The positions at which a sentence of s ends: a terminator followed by
\* whitespace or by the end of the text, and the end of the text.
SentenceEnds(s) ==
    {i \in 1..Len(s) :
        \/ i = Len(s)
        \/ s[i] \in Terminator /\ s[i + 1] \in Space}

\* sent_tokenize(s): the text is cut behind every terminator that whitespace
\* follows; the pieces are trimmed and the empty ones dropped.  (The
\* abbreviation and number heuristics of the Punkt tokenizer are left out:
\* no sample text has an abbreviation.)
sent_tokenize(s) ==
    LET ends   == SentenceEnds(s)
        n      == Cardinality(ends)
        end(k) == IF k = 0 THEN 0
                  ELSE CHOOSE i \in ends : Cardinality({j \in ends : j < i}) = k - 1
        piece  == [k \in 1..n |-> Strip(SubSeq(s, end(k - 1) + 1, end(k)))]
    IN  SelectSeq(piece, LAMBDA x : x # <<>>)

\* The clause length from which two sentences, not one, are carried over.
OverlapSwitch == 100

\* The key 'references' is absent from a chunk's metadata.
NoReferences == <<>>

\* The frame of semantic_chunking when the call is entered.
EnterChunking(txt, heading, metadata, max_tokens, overlap) ==
    [active |-> TRUE, at |-> "enter", text |-> txt, heading |-> heading,
     metadata |-> metadata, max_tokens |-> max_tokens, overlap |-> overlap,
     sentences |-> <<>>, k |-> 1, chunks |-> <<>>, current_chunk |-> <<>>,
     current_length |-> 0, current_context |-> 0, current_clause |-> None,
     clause_buffer |-> <<>>, clause_length |-> 0]

RECURSIVE FallbackContext(_, _, _)
\* The list current_context after the fallback loop has looked at the
\* sentences from k on: a qualifier not yet in the list is appended.
FallbackContext(sentences, k, ctx) ==
    IF k > Len(sentences) THEN ctx
    ELSE LET q == QualifierOf(sentences[k])
         IN  FallbackContext(sentences, k + 1,
                 IF q # None /\ \A i \in 1..Len(ctx) : ctx[i] # q
                 THEN Append(ctx, q) ELSE ctx)

\* The list objects after "if not current_context: for sentence in ...":
\* current_context is metadata['context'] itself, so the list the caller
\* holds is the one that grows.
HeapAfterFallback(f, h) ==
    IF h[f.metadata.context] # <<>> THEN h
    ELSE [h EXCEPT ![f.metadata.context] = FallbackContext(sent_tokenize(f.text), 1, <<>>)]

\* The frame before the scan: sentences split, current_chunk seeded with the
\* heading.
BeginChunking(f) ==
    [f EXCEPT
        !.at = "scan",
        !.sentences = sent_tokenize(f.text),
        !.current_chunk = IF Truthy(f.heading) THEN <<f.heading>> ELSE <<>>,
        !.current_length = IF Truthy(f.heading) THEN Tokens(f.heading) ELSE 0,
        !.current_context = f.metadata.context,
        !.current_clause = f.metadata.clause]

\* chunk_text of the current chunk, with the bracketed context in front of
\* it if current_context is not empty.
ChunkText(f, h) ==
    IF h[f.current_context] # <<>>
    THEN <<"[">> \o Join(h[f.current_context], <<" ">>) \o <<"]", " ">>
         \o Join(f.current_chunk, <<" ">>)
    ELSE Join(f.current_chunk, <<" ">>)

\* The dictionary appended to chunks: {**metadata, 'clause': current_clause
\* or '', 'context': current_context}.
ChunkOf(f, h) ==
    [chunk_text |-> ChunkText(f, h),
     heading |-> f.heading,
     metadata |-> [section |-> f.metadata.section,
                   clause |-> IF Truthy(f.current_clause) THEN f.current_clause ELSE <<>>,
                   page |-> f.metadata.page,
                   context |-> f.current_context,
                   references |-> NoReferences]]

\* clause_buffer[-min(len(clause_buffer), 1 if clause_length < 100 else 2):]
OverlapSentences(f) ==
    LET want == IF f.clause_length < OverlapSwitch THEN 1 ELSE 2
        n    == IF Len(f.clause_buffer) < want THEN Len(f.clause_buffer) ELSE want
    IN  SubSeq(f.clause_buffer, Len(f.clause_buffer) - n + 1, Len(f.clause_buffer))

\* The current chunk is appended to chunks and the next one is seeded with
\* the heading and the overlap sentences.
Overflow(f, h) ==
    [f EXCEPT
        !.chunks = Append(@, ChunkOf(f, h)),
        !.current_chunk = IF Truthy(f.heading) THEN <<f.heading>> \o OverlapSentences(f)
                          ELSE OverlapSentences(f),
        !.current_length = IF Truthy(f.heading)
                           THEN Tokens(f.heading) + SumTokens(OverlapSentences(f))
                           ELSE SumTokens(OverlapSentences(f))]

\* The sentence the scan is at.
Sentence(f) == f.sentences[f.k]

\* is_clause_start and clause_buffer
ClosesClause(f) == ClauseOf(Sentence(f)) # None /\ f.clause_buffer # <<>>

Fits(f) == f.current_length + f.clause_length <= f.max_tokens

\* clause_buffer.append(sentence); clause_length += sentence_tokens
Buffered(f, sentence) ==
    [f EXCEPT !.clause_buffer = Append(@, sentence),
              !.clause_length = @ + Tokens(sentence),
              !.k = @ + 1]

\* The previous clause fits: it goes into the current chunk.
Merged(f) ==
    [f EXCEPT !.current_chunk = @ \o f.clause_buffer,
              !.current_length = @ + f.clause_length]

\* clause_buffer = []; clause_length = 0; current_clause = is_clause_start.group(0)
NewClause(f, sentence) ==
    [f EXCEPT !.clause_buffer = <<>>, !.clause_length = 0,
              !.current_clause = ClauseOf(sentence)]

\* One pass of "for sentence in sentences".
ScanSentence(f, h) ==
    IF ~ClosesClause(f) THEN Buffered(f, Sentence(f))
    ELSE IF Fits(f) THEN Buffered(NewClause(Merged(f), Sentence(f)), Sentence(f))
    ELSE Buffered(NewClause(Overflow(f, h), Sentence(f)), Sentence(f))

RECURSIVE ScanAll(_, _)
ScanAll(f, h) == IF f.k > Len(f.sentences) THEN f ELSE ScanAll(ScanSentence(f, h), h)

\* "Process remaining clause": the clause buffer left when the scan ends.
ProcessRemaining(f, h) ==
    IF f.clause_buffer = <<>> THEN [f EXCEPT !.at = "final"]
    ELSE IF Fits(f)
    THEN [f EXCEPT !.at = "final", !.current_chunk = @ \o f.clause_buffer]
    ELSE LET g == Overflow(f, h)
         IN  [g EXCEPT !.at = "final", !.chunks = Append(@, ChunkOf(g, h))]

\* "Add final chunk if any"
AddFinal(f, h) ==
    IF /\ f.current_chunk # <<>>
       /\ (Len(f.current_chunk) > 1 \/ f.current_chunk[1] # f.heading)
    THEN [f EXCEPT !.at = "returned", !.chunks = Append(@, ChunkOf(f, h))]
    ELSE [f EXCEPT !.at = "returned"]

\* semantic_chunking(text, heading, metadata, max_tokens, overlap) run on
\* the list objects h: the chunks it returns and the list objects after it.
semantic_chunking(txt, heading, metadata, max_tokens, overlap, h) ==
    LET f0 == EnterChunking(txt, heading, metadata, max_tokens, overlap)
        h1 == HeapAfterFallback(f0, h)
        f1 == BeginChunking(f0)
    IN  [chunks |-> AddFinal(ProcessRemaining(ScanAll(f1, h1), h1), h1).chunks,
         heap |-> h1]

\* ------------------------------------------------------------------------
\* semantic_chunking, step by step
\* ------------------------------------------------------------------------

\* "a) Fire is excluded."
S_FIRE ==
    <<"a",")"," ","F","i","r","e"," ","i","s"," ","e","x","c","l","u","d","e","d",".">>

\* "b) Flood."
S_FLOOD ==
    <<"b",")"," ","F","l","o","o","d",".">>

\* "It is not covered."
S_NOT_COVERED ==
    <<"I","t"," ","i","s"," ","n","o","t"," ","c","o","v","e","r","e","d",".">>

\* A sentence of 34 tokens (33 words and the full stop): "x x x ... x."
S_LONG ==
    <<"x"," ","x"," ","x"," ","x"," ","x"," ","x"," ","x"," ","x"," ","x"," ","x"," ","x"," ","x"," ","x"," ","x"," ","x"," ","x"," ","x"," ","x"," ","x"," ","x"," ","x"," ","x"," ","x"," ","x"," ","x"," ","x"," ","x"," ","x"," ","x"," ","x"," ","x"," ","x"," ","x",".">>

\* "PART A: COVER"
H_PART ==
    <<"P","A","R","T"," ","A",":"," ","C","O","V","E","R">>

SentenceSamples == {S_FIRE, S_FLOOD, S_NOT_COVERED, S_LONG}

\* The longest section text (number of sentences).
MaxSentences == 3

\* The <<max_tokens, overlap>> a call is made with; <<500, 100>> are the
\* defaults.
ParamSamples == {<<0, 2>>, <<8, 2>>, <<40, 10>>, <<500, 100>>}

\* Lines 144-160: the sentences are split, the buffers set up, and the
\* fallback context detection has run.
BeginCall ==
    /\ pc = "chunking"
    /\ call.at = "enter"
    /\ heap' = HeapAfterFallback(call, heap)
    /\ call' = BeginChunking(call)
    /\ UNCHANGED <<pc, detectVars, parseVars, cleanVars>>

Scanning ==
    /\ pc = "chunking"
    /\ call.at = "scan"
    /\ call.k <= Len(call.sentences)

\* The sentence does not close a clause: it is buffered.
ScanBuffer ==
    /\ Scanning
    /\ ~ClosesClause(call)
    /\ call' = ScanSentence(call, heap)
    /\ UNCHANGED <<pc, heap, detectVars, parseVars, cleanVars>>

\* The sentence closes a clause that fits into the current chunk.
ScanMerge ==
    /\ Scanning
    /\ ClosesClause(call)
    /\ Fits(call)
    /\ call' = ScanSentence(call, heap)
    /\ UNCHANGED <<pc, heap, detectVars, parseVars, cleanVars>>

\* The sentence closes a clause that does not fit: the current chunk is
\* emitted.
ScanOverflow ==
    /\ Scanning
    /\ ClosesClause(call)
    /\ ~Fits(call)
    /\ call' = ScanSentence(call, heap)
    /\ UNCHANGED <<pc, heap, detectVars, parseVars, cleanVars>>

\* Lines 193-217, after the last sentence.
FlushRemaining ==
    /\ pc = "chunking"
    /\ call.at = "scan"
    /\ call.k > Len(call.sentences)
    /\ call' = ProcessRemaining(call, heap)
    /\ UNCHANGED <<pc, heap, detectVars, parseVars, cleanVars>>

\* Lines 219-230: the final chunk, and the return.
FinalChunk ==
    /\ pc = "chunking"
    /\ call.at = "final"
    /\ call' = AddFinal(call, heap)
    /\ UNCHANGED <<pc, heap, detectVars, parseVars, cleanVars>>

\* A call of semantic_chunking on a section text of up to MaxSentences
\* sentences, with or without a heading, with an empty or a non-empty
\* metadata['context'].
InitChunk ==
    /\ pc = "chunking"
    /\ heap = << <<>>, <<<<"n","o","t"," ","c","o","v","e","r","e","d">>>> >>
    /\ \E n \in 0..MaxSentences :
       \E ss \in [1..n -> SentenceSamples] :
       \E heading \in {None, H_PART} :
       \E c \in {1, 2} :
       \E p \in ParamSamples :
           call = EnterChunking(Join(ss, <<" ">>), heading,
                                [section |-> heading, clause |-> None, page |-> 1,
                                 context |-> c],
                                p[1], p[2])
    /\ elements = <<>>
    /\ structured_elements = <<>>
    /\ current_section = None
    /\ current_clause = None
    /\ current_page = 1
    /\ last_heading = None
    /\ context_stack = 1
    /\ final_chunks = <<>>
    /\ current_section_text = <<>>
    /\ current_heading = None
    /\ current_metadata = NoMetadata
    /\ idx = 1
    /\ text = <<>>
    /\ doc_ext = <<>>
    /\ passes = 0

NextChunk ==
    \/ BeginCall
    \/ ScanBuffer
    \/ ScanMerge
    \/ ScanOverflow
    \/ FlushRemaining
    \/ FinalChunk

SpecChunk == InitChunk /\ [][NextChunk]_vars

\* ------------------------------------------------------------------------
\* parse_document_in_memory: grouping by heading, reference extraction
\* ------------------------------------------------------------------------

\* max_tokens = 500
max_tokens == 500

\* overlap = 100
overlap == 100

\* (?:See|Refer to)\s*(?:Section|Clause)\s*[A-Z0-9\-.\s]+ with re.IGNORECASE
ReferenceRe ==
    Cat(<<Alt(<<LitI(<<"S","e","e">>), LitI(<<"R","e","f","e","r"," ","t","o">>)>>), SpacesRe,
          Alt(<<LitI(<<"S","e","c","t","i","o","n">>), LitI(<<"C","l","a","u","s","e">>)>>), SpacesRe,
          Rep(In(Letter \cup Digit \cup {"-", "."} \cup Space), 1)>>)

\* The element the grouping loop is at.
Grouped == structured_elements[idx]

\* semantic_chunking on the section collected so far.
SectionChunks ==
    semantic_chunking(Join(current_section_text, <<" ">>), current_heading,
                      current_metadata, max_tokens, overlap, heap)

\* A section is due for chunking: the heading changes or the loop is over,
\* and some text was collected.
SectionDue ==
    /\ current_section_text # <<>>
    /\ IF idx > Len(structured_elements)
       THEN TRUE
       ELSE Grouped.heading # current_heading

\* current_metadata is still None when the section is chunked (the first
\* element had no heading, so "heading != current_heading" never assigned
\* it): metadata.get raises AttributeError in semantic_chunking and
\* parse_document_in_memory ends with it.
RaiseAttributeError ==
    /\ pc = "group"
    /\ SectionDue
    /\ current_metadata = NoMetadata
    /\ pc' = "raised"
    /\ UNCHANGED <<heap, detectVars, parseVars, call, cleanVars>>

\* The heading changes: the section collected so far, if any, is chunked and
\* a new one starts with this element.
GroupNewHeading ==
    /\ pc = "group"
    /\ idx <= Len(structured_elements)
    /\ Grouped.heading # current_heading
    /\ ~(SectionDue /\ current_metadata = NoMetadata)
    /\ IF current_section_text # <<>>
       THEN /\ final_chunks' = final_chunks \o SectionChunks.chunks
            /\ heap' = SectionChunks.heap
            /\ current_section_text' = <<Grouped.text>>
       ELSE /\ current_section_text' = Append(current_section_text, Grouped.text)
            /\ UNCHANGED <<final_chunks, heap>>
    /\ current_heading' = Grouped.heading
    /\ current_metadata' = Grouped.metadata
    /\ idx' = idx + 1
    /\ UNCHANGED <<pc, detectVars, call, cleanVars>>

\* The heading is the one of the section being collected.
GroupSameHeading ==
    /\ pc = "group"
    /\ idx <= Len(structured_elements)
    /\ Grouped.heading = current_heading
    /\ current_section_text' = Append(current_section_text, Grouped.text)
    /\ idx' = idx + 1
    /\ UNCHANGED <<pc, heap, detectVars, final_chunks, current_heading,
                   current_metadata, call, cleanVars>>

\* "Process final section"
ProcessFinalSection ==
    /\ pc = "group"
    /\ idx > Len(structured_elements)
    /\ ~(SectionDue /\ current_metadata = NoMetadata)
    /\ IF current_section_text # <<>>
       THEN /\ final_chunks' = final_chunks \o SectionChunks.chunks
            /\ heap' = SectionChunks.heap
       ELSE UNCHANGED <<final_chunks, heap>>
    /\ pc' = "references"
    /\ idx' = 1
    /\ UNCHANGED <<detectVars, current_section_text, current_heading,
                   current_metadata, call, cleanVars>>

\* One pass of "for chunk in final_chunks": the key 'references' is set if
\* the pattern is found in chunk_text.
ExtractReferences ==
    /\ pc = "references"
    /\ idx <= Len(final_chunks)
    /\ LET references == ReFindAll(ReferenceRe, final_chunks[idx].chunk_text)
       IN  final_chunks' =
               IF references # <<>>
               THEN [final_chunks EXCEPT ![idx].metadata.references = references]
               ELSE final_chunks
    /\ idx' = idx + 1
    /\ UNCHANGED <<pc, heap, detectVars, current_section_text, current_heading,
                   current_metadata, call, cleanVars>>

\* The chunks are handed to the index and returned.
ReturnChunks ==
    /\ pc = "references"
    /\ idx > Len(final_chunks)
    /\ pc' = "done"
    /\ UNCHANGED <<heap, detectVars, parseVars, call, cleanVars>>

Init == InitDetect

Next ==
    \/ DetectStep
    \/ ReturnStructure
    \/ RaiseAttributeError
    \/ GroupNewHeading
    \/ GroupSameHeading
    \/ ProcessFinalSection
    \/ ExtractReferences
    \/ ReturnChunks

Spec == Init /\ [][Next]_vars

\* ------------------------------------------------------------------------
\* clean_text applied repeatedly to sample texts
\* ------------------------------------------------------------------------

\* "a-b-c"
P_HYPHENS ==
    <<"a","-","b","-","c">>

\* "co- pay"
P_BROKEN ==
    <<"c","o","-"," ","p","a","y">>

\* "x All rights reserved y"
P_RIGHTS ==
    <<"x"," ","A","l","l"," ","r","i","g","h","t","s"," ","r","e","s","e","r","v","e","d"," ","y">>

\* "Page 1 of 2"
P_PAGE ==
    <<"P","a","g","e"," ","1"," ","o","f"," ","2">>

\* "[draft]  ok"
P_DRAFT ==
    <<"[","d","r","a","f","t","]"," "," ","o","k">>

\* "Best regards, Bob"
P_REGARDS ==
    <<"B","e","s","t"," ","r","e","g","a","r","d","s",","," ","B","o","b">>

CleanPieces == {P_HYPHENS, P_BROKEN, P_RIGHTS, P_PAGE, P_DRAFT, P_REGARDS}

\* The longest text is MaxPieces pieces long.
MaxPieces == 2

\* The number of times clean_text is applied to a text.
MaxPasses == 2

\* text = clean_text(text, doc_ext)
CleanPass ==
    /\ pc = "clean"
    /\ passes < MaxPasses
    /\ text' = clean_text(text, doc_ext)
    /\ passes' = passes + 1
    /\ UNCHANGED <<pc, heap, detectVars, parseVars, call, doc_ext>>

InitClean ==
    /\ pc = "clean"
    /\ \E n \in 1..MaxPieces :
       \E ps \in [1..n -> CleanPieces] :
           text = Join(ps, <<" ">>)
    /\ doc_ext \in {EXT_PDF, EXT_EML, EXT_DOCX}
    /\ passes = 0
    /\ heap = << <<>> >>
    /\ elements = <<>>
    /\ structured_elements = <<>>
    /\ current_section = None
    /\ current_clause = None
    /\ current_page = 1
    /\ last_heading = None
    /\ context_stack = 1
    /\ final_chunks = <<>>
    /\ current_section_text = <<>>
    /\ current_heading = None
    /\ current_metadata = NoMetadata
    /\ idx = 1
    /\ call = NoCall

NextClean == CleanPass

SpecClean == InitClean /\ [][NextClean]_vars

\* ------------------------------------------------------------------------
\* Properties of detect_structure
\* ------------------------------------------------------------------------

IsBlank(e) == Strip(e.text) = <<>>

IsNonBlank(e) == ~IsBlank(e)

\* The consumed elements that have a non-empty trimmed text, in input order.
NonBlank(es) == SelectSeq(es, IsNonBlank)

\* C4: detect_structure emits exactly one record per element whose trimmed
\* text is non-empty, in input order, with that trimmed text as the record's
\* text; an element with an empty or whitespace-only text adds no record and
\* leaves current_section, current_clause, current_page, last_heading and
\* context_stack (and the list it names) as they were, page number or not.
C4_OneRecordPerNonEmptyElement ==
    [][ /\ Len(structured_elements') = Len(NonBlank(elements'))
        /\ \A i \in 1..Len(structured_elements') :
               structured_elements'[i].text = Strip(NonBlank(elements')[i].text)
        /\ (Len(elements') = Len(elements) + 1 /\ IsBlank(elements'[Len(elements')]))
               => UNCHANGED <<structured_elements, current_section, current_clause,
                              current_page, last_heading, context_stack, heap>>
      ]_vars

\* A blank element that carries a page number was consumed, then an element
\* that produced a record.
C4_Witness ==
    /\ Len(elements) = 2
    /\ IsBlank(elements[1])
    /\ elements[1].page_number # NoPage
    /\ Len(structured_elements) = 1
    /\ structured_elements[1].text = Strip(elements[2].text)

\* C5: in the list detect_structure returns, every record whose element
\* triggered the heading classification has an empty context and no clause,
\* whatever qualifiers were detected before or after it.
C5_HeadingRecordHasEmptyContext ==
    \A i \in 1..Len(structured_elements) :
        IsHeading(NonBlank(elements)[i]) =>
            /\ heap[structured_elements[i].metadata.context] = <<>>
            /\ structured_elements[i].metadata.clause = None

\* A heading record followed by an element whose qualifier went onto
\* context_stack.
C5_Witness ==
    /\ Len(structured_elements) = 2
    /\ IsHeading(NonBlank(elements)[1])
    /\ heap[context_stack] # <<>>

\* A numeric marker followed by prose: \d+\. then blanks then a letter.
NumericMarkerRe == Cat(<<DigitsRe, In({"."})>>)

StartsWithNumericMarker(t) ==
    ReMatch(Cat(<<NumericMarkerRe, Rep(In(Space), 1), In(Letter)>>), t) # NoMatch

\* C7: an element without the Title category whose text starts with a numeric
\* marker followed by prose and that follows a Title heading is a clause
\* record: its clause is the marker, its heading and section are those of
\* the heading before it.
C7_NumericClauseAfterHeading ==
    \A i \in 2..Len(structured_elements) :
        LET e == NonBlank(elements)[i]
            h == NonBlank(elements)[i - 1]
            t == structured_elements[i].text
        IN  (h.category = "Title" /\ e.category # "Title"
             /\ StartsWithNumericMarker(t)) =>
                /\ structured_elements[i].metadata.clause
                       = Group0(t, ReMatch(NumericMarkerRe, t))
                /\ structured_elements[i].heading = structured_elements[i - 1].heading
                /\ structured_elements[i].metadata.section
                       = structured_elements[i - 1].metadata.section

\* ------------------------------------------------------------------------
\* Properties of semantic_chunking
\* ------------------------------------------------------------------------

Returned == call.active /\ call.at = "returned"

\* C1: every sentence of the section text appears in the chunk_text of at
\* least one chunk semantic_chunking returns.
C1_NoSentenceLost ==
    Returned =>
        \A i \in 1..Len(call.sentences) :
            \E j \in 1..Len(call.chunks) :
                Contains(call.chunks[j].chunk_text, call.sentences[i])

PrefixLen(c) ==
    (IF heap[c.metadata.context] # <<>>
     THEN Len(Join(heap[c.metadata.context], <<" ">>)) + 3 ELSE 0)
    + (IF Truthy(c.heading) THEN Len(c.heading) ELSE 0)

\* The sentences of a chunk, behind its context and heading prefix.
BodySentences(c) ==
    sent_tokenize(Strip(SubSeq(c.chunk_text, PrefixLen(c) + 1, Len(c.chunk_text))))

\* The last n sentences of chunk c1 are the first n sentences of chunk c2.
Continues(c1, c2, n) ==
    LET b1 == BodySentences(c1)
        b2 == BodySentences(c2)
    IN  /\ n <= Len(b1)
        /\ n <= Len(b2)
        /\ SubSeq(b1, Len(b1) - n + 1, Len(b1)) = SubSeq(b2, 1, n)

\* C3: of two chunks produced one after the other from one section, the
\* second starts, behind its heading, with the last one or two sentences of
\* the first (checked for every first chunk that holds a sentence).
C3_OverlapContinuity ==
    call.active =>
        \A j \in 1..(Len(call.chunks) - 1) :
            BodySentences(call.chunks[j]) # <<>> =>
                \/ Continues(call.chunks[j], call.chunks[j + 1], 1)
                \/ Continues(call.chunks[j], call.chunks[j + 1], 2)

\* C9: a call with max_tokens <= 0 does not return chunks (it raises).
C9_InvalidMaxTokensRaises ==
    (call.active /\ call.max_tokens <= 0) => call.at # "returned"

\* ------------------------------------------------------------------------
\* Properties of parse_document_in_memory
\* ------------------------------------------------------------------------

\* C6: every record that comes from a Table element yields, among the final
\* chunks, a chunk whose chunk_text is exactly the record's own text.
C6_TableIsolation ==
    pc = "done" =>
        \A i \in 1..Len(NonBlank(elements)) :
            NonBlank(elements)[i].category = "Table" =>
                \E j \in 1..Len(final_chunks) :
                    final_chunks[j].chunk_text = structured_elements[i].text

\* "See Section <id>" / "Refer to Clause <id>" where the identifier is made
\* of letters, digits, hyphens and dots and ends at the next blank.
IdentifierReferenceRe ==
    Cat(<<Alt(<<LitI(<<"S","e","e">>), LitI(<<"R","e","f","e","r"," ","t","o">>)>>), SpacesRe,
          Alt(<<LitI(<<"S","e","c","t","i","o","n">>), LitI(<<"C","l","a","u","s","e">>)>>), SpacesRe,
          Rep(In(Letter \cup Digit \cup {"-", "."}), 1)>>)

\* C8: the references attached to a chunk are, for each occurrence of
\* "See Section <id>" or "Refer to Clause <id>" in chunk_text, the string that
\* ends at the identifier, without the words that follow it.
C8_ReferenceEndsAtIdentifier ==
    pc = "done" =>
        \A j \in 1..Len(final_chunks) :
            final_chunks[j].metadata.references =
                ReFindAll(IdentifierReferenceRe, final_chunks[j].chunk_text)

\* ------------------------------------------------------------------------
\* Properties of clean_text
\* ------------------------------------------------------------------------

\* C10: clean_text is idempotent for a fixed extension: applied to a text
\* that clean_text returned, it returns that text.
C10_CleanTextIdempotent ==
    (pc = "clean" /\ passes >= 1) => clean_text(text, doc_ext) = text

\* ------------------------------------------------------------------------
\* Properties of the records' context lists
\* ------------------------------------------------------------------------

\* C11: the context of a record is fixed when the record is created: no later
\* step of detect_structure, and no later run of semantic_chunking on the
\* records, changes the context of a record that was already emitted.
C11_ContextNeverMutated ==
    [][ \A i \in 1..Len(structured_elements) :
            /\ i <= Len(structured_elements')
            /\ heap'[structured_elements'[i].metadata.context]
                   = heap[structured_elements[i].metadata.context]
      ]_vars

\* ------------------------------------------------------------------------
\* Properties of the heading classification
\* ------------------------------------------------------------------------

\* A run of at least 10 capital letters and blanks at the start of the text.
AllCapsRunRe == Rep(In(Upper \cup Space), 10)

\* Prose with no leading number and no all-caps run at its start.
IsProse(t) ==
    /\ t # <<>>
    /\ t[1] \notin Digit
    /\ ReMatch(AllCapsRunRe, t) = NoMatch

\* C12: an element without the Title category whose text is lower- or
\* mixed-case prose with no leading number is not a heading: processing it
\* leaves current_section and last_heading as they were and does not replace
\* context_stack by a new empty list.
C12_ProseIsNotHeading ==
    [][ (/\ Len(elements') = Len(elements) + 1
         /\ elements'[Len(elements')].category # "Title"
         /\ IsProse(TextOf(elements'[Len(elements')])))
            => UNCHANGED <<current_section, last_heading, context_stack>>
      ]_vars

====
